---- MODULE Spec2Model ----
(***************************************************************************)
(* Model of crates/bevy_eventlistener_core/src/callbacks.rs.               *)
(*                                                                         *)
(* A CallbackSystem value ("handle") is Empty, New(system) or              *)
(* Initialized(system), where system is an Arc<Mutex<BoxedSystem>> that    *)
(* clones of the handle share.  The model follows one such allocation and  *)
(* the handles that may own it.  CallbackSystem::run(&mut self, &mut World)*)
(* is modelled statement by statement; every `system.lock().unwrap()` is   *)
(* its own step, so that calls made through different handles interleave   *)
(* exactly where the code lets them.                                       *)
(*                                                                         *)
(* &mut self makes the calls through one handle sequential, and &mut World *)
(* lets two calls overlap only on different worlds: the call through       *)
(* handle h is made by the dispatch pass of site h on that pass's own      *)
(* World, world[h].                                                        *)
(*                                                                         *)
(* ListenerInput<E> (the value a callback reaches through Listener /       *)
(* ListenerMut) is modelled with its four operations; the bubbling pass    *)
(* that constructs it and reads it back is the specification SpecBubble.   *)
(***************************************************************************)
EXTENDS Integers, Sequences, FiniteSets

\* ---- bounds -------------------------------------------------------------
NumHandles == 2     \* CallbackSystem values (registration sites)
MaxCalls   == 2     \* total number of run calls in a behaviour
NumEntities == 3    \* entities of the hierarchy, a chain 1 -> 2 -> .. (child -> parent)
MaxFoo     == 2     \* largest value of the event's counter field foo

Handles == 1..NumHandles
CallIds == 1..MaxCalls

\* the Arc<Mutex<BoxedSystem>> allocation the model follows
Systems == {1}

NoSys    == 0
NoHolder == 0

Entities == 1..NumEntities
NoEntity == 0

VARIABLES
    handle,     \* handle[h]   : the CallbackSystem value stored at site h
    lock,       \* lock[s]     : handle whose call holds the Mutex of s, or NoHolder
    poisoned,   \* poisoned[s] : the Mutex of s is poisoned
    pending,    \* pending[s]  : calls whose deferred effects sit in the buffers of s
    world,      \* world[h]    : calls whose deferred effects were applied to the World of site h
    pc,         \* pc[h]       : position of the call through handle h inside run
    cur,        \* cur[h]      : the call in progress through handle h
    log,        \* history of the system steps performed, in order
    nextCall,   \* id of the next run call
    listeners,  \* entities that carry an On<E> listener
    event,      \* the event instance being bubbled: [target, foo]
    entity,     \* entity the bubbling pass has reached, or NoEntity
    phase,      \* position of the bubbling pass
    input,      \* the ListenerInput<E> resource, or NoInput
    ret,        \* what the callback's last ListenerInput operation returned
    invoked,    \* entities for which the pass constructed a ListenerInput, in order
    stops,      \* entities whose callback called stop_propagation in this pass
    wrote       \* [foo0, n]: foo at construction of input, and the `foo += 1` done through it

callbackVars == <<handle, lock, poisoned, pending, world, pc, cur, log, nextCall>>

bubbleVars == <<listeners, event, entity, phase, input, ret, invoked, stops, wrote>>

vars == <<callbackVars, bubbleVars>>

\* ---- enum CallbackSystem (callbacks.rs:7-13) ------------------------------
Empty == [tag |-> "Empty", sys |-> NoSys]

New(s) == [tag |-> "New", sys |-> s]

Initialized(s) == [tag |-> "Initialized", sys |-> s]

CallbackSystem == {Empty} \cup {New(s) : s \in Systems} \cup {Initialized(s) : s \in Systems}

\* ---- fn is_initialized (callbacks.rs:16-18) -------------------------------
is_initialized(c) == c.tag = "Initialized"

\* ---- lines 21-24 and 29: which statement run reaches for a handle value ---
\* Initialized: straight to line 30.  New: line 25.  Empty: falls through both
\* `if let`s and returns.
EntryPcPanicOnEmpty(c) ==
    IF is_initialized(c) THEN "lock_run"
    ELSE IF c.tag = "New" THEN "lock_initialize"
    ELSE "failed"

EntryPc(c) ==
    IF is_initialized(c) THEN "lock_run"
    ELSE IF c.tag = "New" THEN "lock_initialize"
    ELSE "done"

\* lines 21-23: value left in *self by mem::swap(self, &mut Empty), which is
\* executed only when !is_initialized()
SwappedKeep(c) == c

SwappedAlways(c) == Empty

Swapped(c) == IF is_initialized(c) THEN c ELSE Empty

\* ---- struct ListenerInput<E> (callbacks.rs:74-81) --------------------------
\* E is the event of the doc example (lines 57-61): a target and a counter foo.
ListenerInput(l, d, p) == [listener |-> l, event_data |-> d, propagate |-> p]

NoEvent == [target |-> NoEntity, foo |-> 0]

NoInput == ListenerInput(NoEntity, NoEvent, FALSE)

\* ---- fn listener (callbacks.rs:87-89) -------------------------------------
listenerReturnsTarget(i) == i.event_data.target

listener(i) == i.listener

\* ---- fn stop_propagation (callbacks.rs:92-94) -----------------------------
stop_propagationToggles(i) == [i EXCEPT !.propagate = ~i.propagate]

stop_propagationNoOp(i) == i

stop_propagation(i) == [i EXCEPT !.propagate = FALSE]

\* ---- Deref::deref (callbacks.rs:97-103) -----------------------------------
deref(i) == i.event_data

\* ---- DerefMut::deref_mut (callbacks.rs:105-109) ---------------------------
\* The callback assigns d through the &mut E that deref_mut returns: the
\* reference points into the ListenerInput itself.
deref_mutOfCopy(i, d) == i

deref_mut(i, d) == [i EXCEPT !.event_data = d]

Ret(op, e, d) == [op |-> op, entity |-> e, data |-> d]

NoRet == Ret("none", NoEntity, NoEvent)

\* no bubbling pass is being followed
BubbleIdle ==
    /\ listeners = {}
    /\ event = NoEvent
    /\ entity = NoEntity
    /\ phase = "off"
    /\ input = NoInput
    /\ ret = NoRet
    /\ invoked = <<>>
    /\ stops = {}
    /\ wrote = [foo0 |-> 0, n |-> 0]

NoCall == [c |-> 0, sys |-> NoSys, start |-> "Empty", at |-> "none"]

Active(h) == pc[h] # "idle"

Entry(op, s, c, ok) == [op |-> op, sys |-> s, call |-> c, ok |-> ok]

\* Registration leaves every site Empty (the default) or New.
Init ==
    /\ handle \in [Handles -> {Empty} \cup {New(s) : s \in Systems}]
    /\ lock = [s \in Systems |-> NoHolder]
    /\ poisoned = [s \in Systems |-> FALSE]
    /\ pending = [s \in Systems |-> {}]
    /\ world = [h \in Handles |-> {}]
    /\ pc = [h \in Handles |-> "idle"]
    /\ cur = [h \in Handles |-> NoCall]
    /\ log = <<>>
    /\ nextCall = 1
    /\ BubbleIdle

\* ---- #[derive(Clone)] (callbacks.rs:7): a clone shares the Arc -----------
\* The clone is stored at a site that held the default value (Empty); neither
\* site is borrowed by a call.
clone(src, dst) ==
    /\ src # dst
    /\ handle[src] # Empty
    /\ handle[dst] = Empty
    /\ ~Active(src) /\ ~Active(dst)
    /\ handle' = [handle EXCEPT ![dst] = handle[src]]
    /\ UNCHANGED <<lock, poisoned, pending, world, pc, cur, log, nextCall>>
    /\ UNCHANGED bubbleVars

\* ---- run, lines 20-24: entry, is_initialized test, swap, `if let New` ----
run_enter(h) ==
    /\ pc[h] = "idle"
    /\ nextCall <= MaxCalls
    /\ handle' = [handle EXCEPT ![h] = Swapped(handle[h])]
    /\ cur' = [cur EXCEPT ![h] = [c |-> nextCall, sys |-> handle[h].sys,
                                  start |-> handle[h].tag, at |-> "none"]]
    /\ pc' = [pc EXCEPT ![h] = EntryPc(handle[h])]
    /\ nextCall' = nextCall + 1
    /\ UNCHANGED <<lock, poisoned, pending, world, log>>
    /\ UNCHANGED bubbleVars

\* ---- system.lock().unwrap() (lines 25, 30, 31) ---------------------------
\* Blocks while another call holds the Mutex.  On a poisoned Mutex lock()
\* returns Err and unwrap panics; the guard inside the error is dropped, so
\* the Mutex is left free and poisoned.
PoisonPanicsIgnore(s) == FALSE

PoisonPanics(s) == poisoned[s]

Acquire(h, at, next) ==
    LET s == cur[h].sys IN
    /\ pc[h] = at
    /\ lock[s] = NoHolder
    /\ IF PoisonPanics(s)
       THEN /\ pc' = [pc EXCEPT ![h] = "failed"]
            /\ cur' = [cur EXCEPT ![h].at = at]
            /\ UNCHANGED lock
       ELSE /\ pc' = [pc EXCEPT ![h] = next]
            /\ lock' = [lock EXCEPT ![s] = h]
            /\ UNCHANGED cur
    /\ UNCHANGED <<handle, poisoned, pending, world, log, nextCall>>
    /\ UNCHANGED bubbleVars

lock_initialize(h) == Acquire(h, "lock_initialize", "initialize")

lock_run(h) == Acquire(h, "lock_run", "run")

lock_apply_deferred(h) == Acquire(h, "lock_apply_deferred", "apply_deferred")

\* A panic inside a step unwinds through the MutexGuard: the Mutex is
\* released and poisoned, and run is left without executing anything further.
PanicHoldsLock(h, at) ==
    /\ pc' = [pc EXCEPT ![h] = "failed"]
    /\ cur' = [cur EXCEPT ![h].at = at]
    /\ lock' = lock
    /\ poisoned' = [poisoned EXCEPT ![cur[h].sys] = TRUE]

PanicNoPoison(h, at) ==
    /\ pc' = [pc EXCEPT ![h] = "failed"]
    /\ cur' = [cur EXCEPT ![h].at = at]
    /\ lock' = [lock EXCEPT ![cur[h].sys] = NoHolder]
    /\ poisoned' = poisoned

Panic(h, at) ==
    /\ pc' = [pc EXCEPT ![h] = "failed"]
    /\ cur' = [cur EXCEPT ![h].at = at]
    /\ lock' = [lock EXCEPT ![cur[h].sys] = NoHolder]
    /\ poisoned' = [poisoned EXCEPT ![cur[h].sys] = TRUE]

\* ---- line 25 `.initialize(world)` and line 26 `*self = Initialized(..)` --
AfterInitializeStaysEmpty(s) == Empty

AfterInitialize(s) == Initialized(s)

initialize(h, ok) ==
    LET s == cur[h].sys IN
    /\ pc[h] = "initialize"
    /\ log' = Append(log, Entry("initialize", s, cur[h].c, ok))
    /\ IF ok
       THEN /\ lock' = [lock EXCEPT ![s] = NoHolder]
            /\ handle' = [handle EXCEPT ![h] = AfterInitialize(s)]
            /\ pc' = [pc EXCEPT ![h] = EntryPc(handle'[h])]
            /\ UNCHANGED <<poisoned, cur>>
       ELSE /\ Panic(h, "initialize")
            /\ UNCHANGED handle
    /\ UNCHANGED <<pending, world, nextCall>>
    /\ UNCHANGED bubbleVars

\* ---- line 30 `.run((), world)`: the run step queues deferred effects -----
\* A run step that panics may or may not have queued its effects first.
AfterRunPcSkipApply == "done"

AfterRunPc == "lock_apply_deferred"

system_run(h, ok, part) ==
    LET s == cur[h].sys IN
    /\ pc[h] = "run"
    /\ ok => part
    /\ log' = Append(log, Entry("run", s, cur[h].c, ok))
    /\ pending' = IF part THEN [pending EXCEPT ![s] = @ \cup {cur[h].c}] ELSE pending
    /\ IF ok
       THEN /\ lock' = [lock EXCEPT ![s] = NoHolder]
            /\ pc' = [pc EXCEPT ![h] = AfterRunPc]
            /\ UNCHANGED <<poisoned, cur>>
       ELSE Panic(h, "run")
    /\ UNCHANGED <<handle, world, nextCall>>
    /\ UNCHANGED bubbleVars

\* ---- line 31 `.apply_deferred(world)`: flush the buffers into world ------
\* An apply step that panics may or may not have flushed the buffers first.
apply_deferred(h, ok, part) ==
    LET s == cur[h].sys IN
    /\ pc[h] = "apply_deferred"
    /\ ok => part
    /\ log' = Append(log, Entry("apply_deferred", s, cur[h].c, ok))
    /\ IF part
       THEN /\ world' = [world EXCEPT ![h] = @ \cup pending[s]]
            /\ pending' = [pending EXCEPT ![s] = {}]
       ELSE UNCHANGED <<world, pending>>
    /\ IF ok
       THEN /\ lock' = [lock EXCEPT ![s] = NoHolder]
            /\ pc' = [pc EXCEPT ![h] = "done"]
            /\ UNCHANGED <<poisoned, cur>>
       ELSE Panic(h, "apply_deferred")
    /\ UNCHANGED <<handle, nextCall>>
    /\ UNCHANGED bubbleVars

\* ---- line 33: run has returned (or unwound); the borrows end -------------
run_return(h) ==
    /\ pc[h] \in {"done", "failed"}
    /\ pc' = [pc EXCEPT ![h] = "idle"]
    /\ cur' = [cur EXCEPT ![h] = NoCall]
    /\ UNCHANGED <<handle, lock, poisoned, pending, world, log, nextCall>>
    /\ UNCHANGED bubbleVars

Next ==
    \/ \E src, dst \in Handles : clone(src, dst)
    \/ \E h \in Handles : run_enter(h)
    \/ \E h \in Handles : lock_initialize(h)
    \/ \E h \in Handles, ok \in BOOLEAN : initialize(h, ok)
    \/ \E h \in Handles : lock_run(h)
    \/ \E h \in Handles, ok \in BOOLEAN, part \in BOOLEAN : system_run(h, ok, part)
    \/ \E h \in Handles : lock_apply_deferred(h)
    \/ \E h \in Handles, ok \in BOOLEAN, part \in BOOLEAN : apply_deferred(h, ok, part)
    \/ \E h \in Handles : run_return(h)

Spec == Init /\ [][Next]_vars

\* A thread inside run keeps being scheduled: a statement of run that stays
\* executable is eventually executed.  (Nothing forces a caller to start a
\* call, to clone, or to take notice of the return.)
Progress(h) ==
    \/ lock_initialize(h)
    \/ \E ok \in BOOLEAN : initialize(h, ok)
    \/ lock_run(h)
    \/ \E ok \in BOOLEAN, part \in BOOLEAN : system_run(h, ok, part)
    \/ lock_apply_deferred(h)
    \/ \E ok \in BOOLEAN, part \in BOOLEAN : apply_deferred(h, ok, part)

FairSpec == Spec /\ \A h \in Handles : WF_vars(Progress(h))

TypeOK ==
    /\ handle \in [Handles -> CallbackSystem]
    /\ lock \in [Systems -> Handles \cup {NoHolder}]
    /\ poisoned \in [Systems -> BOOLEAN]
    /\ pending \in [Systems -> SUBSET CallIds]
    /\ world \in [Handles -> SUBSET CallIds]
    /\ nextCall \in 1..(MaxCalls + 1)
    /\ Len(log) <= 3 * MaxCalls

\* ======== the bubbling pass around one ListenerInput ========================
\* The driver (event dispatcher) walks from the event's target up the parent
\* chain; at every entity that carries a listener it constructs a
\* ListenerInput, publishes it as a resource, runs the callback, and reads the
\* resource back.  The callback's run step is any sequence of the four
\* ListenerInput operations.

\* the hierarchy is the chain 1 -> 2 -> ... -> NumEntities
Parent(e) == IF e < NumEntities THEN e + 1 ELSE NoEntity

Events == [target : Entities, foo : 0..MaxFoo]

\* no callback is registered at any site: the callback variables stay put
InitBubble ==
    /\ handle = [h \in Handles |-> Empty]
    /\ lock = [s \in Systems |-> NoHolder]
    /\ poisoned = [s \in Systems |-> FALSE]
    /\ pending = [s \in Systems |-> {}]
    /\ world = [h \in Handles |-> {}]
    /\ pc = [h \in Handles |-> "idle"]
    /\ cur = [h \in Handles |-> NoCall]
    /\ log = <<>>
    /\ nextCall = 1
    /\ listeners \in SUBSET Entities
    /\ event \in Events
    /\ entity = event.target
    /\ phase = "walk"
    /\ input = NoInput
    /\ ret = NoRet
    /\ invoked = <<>>
    /\ stops = {}
    /\ wrote = [foo0 |-> 0, n |-> 0]

\* the pass moves on from `entity`: to its parent, or it ends
MoveOn ==
    IF Parent(entity) # NoEntity
    THEN entity' = Parent(entity) /\ phase' = "walk"
    ELSE entity' = entity /\ phase' = "finished"

\* an entity without listener is passed over
pass_over ==
    /\ phase = "walk"
    /\ entity \notin listeners
    /\ MoveOn
    /\ UNCHANGED <<listeners, event, input, ret, invoked, stops, wrote>>
    /\ UNCHANGED callbackVars

\* a fresh ListenerInput for the listener at `entity`: propagate starts true
construct ==
    /\ phase = "walk"
    /\ entity \in listeners
    /\ input' = ListenerInput(entity, event, TRUE)
    /\ invoked' = Append(invoked, entity)
    /\ wrote' = [foo0 |-> event.foo, n |-> 0]
    /\ ret' = NoRet
    /\ phase' = "callback"
    /\ UNCHANGED <<listeners, event, entity, stops>>
    /\ UNCHANGED callbackVars

\* ---- the callback (doc example, callbacks.rs:67-72) ------------------------
\* event.listener()
cb_listener ==
    /\ phase = "callback"
    /\ ret' = Ret("listener", listener(input), NoEvent)
    /\ UNCHANGED <<listeners, event, entity, phase, input, invoked, stops, wrote>>
    /\ UNCHANGED callbackVars

\* event.stop_propagation()
cb_stop_propagation ==
    /\ phase = "callback"
    /\ input' = stop_propagation(input)
    /\ stops' = stops \cup {entity}
    /\ ret' = Ret("stop_propagation", NoEntity, NoEvent)
    /\ UNCHANGED <<listeners, event, entity, phase, invoked, wrote>>
    /\ UNCHANGED callbackVars

\* event.target(), event.foo: a read through Deref
cb_deref ==
    /\ phase = "callback"
    /\ ret' = Ret("deref", NoEntity, deref(input))
    /\ UNCHANGED <<listeners, event, entity, phase, input, invoked, stops, wrote>>
    /\ UNCHANGED callbackVars

\* event.foo += 1: a write through DerefMut
cb_deref_mut ==
    /\ phase = "callback"
    /\ deref(input).foo < MaxFoo
    /\ input' = deref_mut(input, [deref(input) EXCEPT !.foo = @ + 1])
    /\ wrote' = [wrote EXCEPT !.n = @ + 1]
    /\ ret' = Ret("deref_mut", NoEntity, NoEvent)
    /\ UNCHANGED <<listeners, event, entity, phase, invoked, stops>>
    /\ UNCHANGED callbackVars

\* CallbackSystem::run returns to the driver
execute_return ==
    /\ phase = "callback"
    /\ phase' = "returned"
    /\ UNCHANGED <<listeners, event, entity, input, ret, invoked, stops, wrote>>
    /\ UNCHANGED callbackVars

\* the driver takes the resource back and reads propagate; the event data
\* goes on to the next listener as mutated (shared) or as dispatched (cloned)
read_back(shared) ==
    /\ phase = "returned"
    /\ input' = NoInput
    /\ event' = IF shared THEN deref(input) ELSE event
    /\ IF input.propagate THEN MoveOn ELSE (entity' = entity /\ phase' = "finished")
    /\ UNCHANGED <<listeners, ret, invoked, stops, wrote>>
    /\ UNCHANGED callbackVars

NextBubble ==
    \/ pass_over
    \/ construct
    \/ cb_listener
    \/ cb_stop_propagation
    \/ cb_deref
    \/ cb_deref_mut
    \/ execute_return
    \/ \E shared \in BOOLEAN : read_back(shared)

SpecBubble == InitBubble /\ [][NextBubble]_vars

\* ---- reading the history ---------------------------------------------------
Idx == DOMAIN log

IsStep(i, op, s) == log[i].op = op /\ log[i].sys = s

\* the steps performed by call c, in order
CallSteps(c) == SelectSeq(log, LAMBDA e : e.call = c)

Ops(seq) == [i \in DOMAIN seq |-> seq[i].op]

AllOk(seq) == \A i \in DOMAIN seq : seq[i].ok

\* number of initialize steps that ran to completion on system s
InitCount(s) == Cardinality({i \in Idx : IsStep(i, "initialize", s) /\ log[i].ok})

\* no call is between its entry and its return on system s
Quiescent(s) == \A h \in Handles : pc[h] \in {"idle", "done", "failed"} \/ cur[h].sys # s

\* no step on system s has panicked
NoFailure(s) == \A i \in Idx : log[i].sys = s => log[i].ok

\* ---- C1 ------------------------------------------------------------------
\* C1: for every callback instance (one shared system) the initialization
\* step is performed at most once over all run calls through all the handles
\* that share it.  Stated on completed initialize steps; the code violates it
\* with two clones of a New handle.
C1_InitAtMostOnce == \A s \in Systems : InitCount(s) <= 1

\* ---- C2 ------------------------------------------------------------------
\* C2: once run has returned normally through one owner of a callback
\* instance, is_initialized is true for every handle that references the
\* same instance.
C2_AllOwnersReady ==
    \A h \in Handles :
        (pc[h] = "done" /\ cur[h].sys # NoSys) =>
            \A g \in Handles : handle[g].sys = cur[h].sys => is_initialized(handle[g])

\* ---- C3 ------------------------------------------------------------------
\* C3: a run call that returns, made on a New or Initialized handle, has
\* performed the run step exactly once and then apply_deferred exactly once,
\* preceded by exactly one initialize when the handle was New, and leaves the
\* handle Initialized with the same system.
C3_RunThenApply ==
    \A h \in Handles :
        (pc[h] = "done" /\ cur[h].start # "Empty") =>
            /\ Ops(CallSteps(cur[h].c)) =
                  IF cur[h].start = "New"
                  THEN <<"initialize", "run", "apply_deferred">>
                  ELSE <<"run", "apply_deferred">>
            /\ AllOk(CallSteps(cur[h].c))
            /\ handle[h] = Initialized(cur[h].sys)

\* a call on a New handle has returned
C3_Witness == \E h \in Handles : pc[h] = "done" /\ cur[h].start = "New"

\* ---- C4 ------------------------------------------------------------------
\* C4: for one callback instance no initialize step occurs after a run step
\* of that instance, and within one call run precedes apply_deferred.
C4_InitBeforeEveryRun ==
    /\ \A i, j \in Idx :
          (i < j /\ log[i].op = "run" /\ log[j].op = "initialize")
              => log[i].sys # log[j].sys
    /\ \A i, j \in Idx :
          (log[i].call = log[j].call /\ log[i].op = "run"
             /\ log[j].op = "apply_deferred") => i < j

\* ---- C5 ------------------------------------------------------------------
\* C5: the run step of one call never falls between the run step and the
\* apply_deferred step of another call on the same callback instance.
C5_NoInterleaving ==
    \A i, j, k \in Idx :
        (i < j /\ j < k
           /\ log[i].op = "run" /\ log[k].op = "apply_deferred"
           /\ log[i].call = log[k].call
           /\ log[j].op = "run" /\ log[j].sys = log[i].sys)
        => log[j].call = log[i].call

\* ---- C6 ------------------------------------------------------------------
\* C6: when run returns normally the deferred effects queued by that call
\* have been applied to the world the call was given, and while no call is in
\* progress on an instance (none of whose steps panicked) the instance has no
\* pending deferred effects.
C6_EffectsApplied ==
    /\ \A h \in Handles :
          (pc[h] = "done" /\ cur[h].start # "Empty") => cur[h].c \in world[h]
    /\ \A s \in Systems : (Quiescent(s) /\ NoFailure(s)) => pending[s] = {}

\* ---- C7 ------------------------------------------------------------------
\* C7 as stated: after the initialize step panicked the Mutex is free and the
\* handle is still New with the same system (so the next call retries).
C7_RemainsUninitialized ==
    \A h \in Handles :
        (pc[h] = "failed" /\ cur[h].at = "initialize") =>
            /\ lock[cur[h].sys] = NoHolder
            /\ handle[h] = New(cur[h].sys)

\* C7 amended: after the initialize step panicked the Mutex is free but
\* poisoned and the handle is left Empty (the swap of line 23 is not undone),
\* and no step of that system is ever performed after the failed initialize.
C7_LeftEmpty ==
    /\ \A h \in Handles :
          (pc[h] = "failed" /\ cur[h].at = "initialize") =>
              /\ lock[cur[h].sys] = NoHolder
              /\ poisoned[cur[h].sys]
              /\ handle[h] = Empty
    /\ \A i, j \in Idx :
          (i < j /\ log[i].op = "initialize" /\ ~log[i].ok) => log[j].sys # log[i].sys

\* a call has failed in its initialize step
C7_Witness == \E h \in Handles : pc[h] = "failed" /\ cur[h].at = "initialize"

\* ---- C8 ------------------------------------------------------------------
\* C8: after the run or apply_deferred step panicked the handle is still
\* Initialized with the same system, and no initialize step is performed on
\* that system afterwards, through any handle.
C8_StaysReady ==
    /\ \A h \in Handles :
          (pc[h] = "failed" /\ cur[h].at \in {"run", "apply_deferred"}) =>
              handle[h] = Initialized(cur[h].sys)
    /\ \A i, j \in Idx :
          (i < j /\ log[i].op \in {"run", "apply_deferred"} /\ ~log[i].ok
             /\ log[j].op = "initialize") => log[j].sys # log[i].sys

\* after a failed run or apply_deferred step on a system, a later call through
\* a New handle of the same system has been refused at line 25
C8_Witness ==
    \E h \in Handles :
        /\ pc[h] = "failed" /\ cur[h].at = "lock_initialize"
        /\ \E i \in Idx : /\ log[i].sys = cur[h].sys /\ ~log[i].ok
                          /\ log[i].op \in {"run", "apply_deferred"}

\* ---- C9 ------------------------------------------------------------------
\* C9: run on an Empty handle returns at once: it performs no step, changes
\* no world, no system and no handle, does not panic, and the handle is Empty
\* afterwards, however often it is repeated.
C9_EmptyNoOp ==
    /\ [](\A h \in Handles :
            (pc[h] \in {"done", "failed"} /\ cur[h].start = "Empty") =>
                /\ pc[h] = "done"
                /\ handle[h] = Empty
                /\ CallSteps(cur[h].c) = <<>>)
    /\ [][\A h \in Handles :
            (pc[h] = "idle" /\ pc'[h] # "idle" /\ cur'[h].start = "Empty") =>
                /\ pc'[h] = "done"
                /\ UNCHANGED <<handle, lock, poisoned, pending, world, log>>]_vars

\* a second or later call made on an Empty handle has returned
C9_Witness == \E h \in Handles : pc[h] = "done" /\ cur[h].start = "Empty" /\ cur[h].c > 1

\* ---- C10 -----------------------------------------------------------------
\* C10 as stated (its "true after" part): after a run call on a handle has
\* returned, is_initialized is true for that handle.
C10_ReadyAfterAnyCall ==
    \A h \in Handles : pc[h] = "done" => is_initialized(handle[h])

\* C10 amended: a New handle stays New (is_initialized false) until a run call
\* is made on it; after a run call on a New handle has returned normally
\* is_initialized is true; and a handle for which is_initialized is true
\* keeps its value, so it never returns false again.
C10_ReadyAfterCallOnNew ==
    /\ [](\A h \in Handles :
            (pc[h] = "done" /\ cur[h].start = "New") => is_initialized(handle[h]))
    /\ [][\A h \in Handles :
            /\ is_initialized(handle[h]) => handle'[h] = handle[h]
            /\ (handle[h].tag = "New" /\ handle'[h] # handle[h]) =>
                   (pc[h] = "idle" /\ pc'[h] # "idle")]_vars

\* a call on a New handle has returned and a later call on the same, now
\* Initialized, handle has returned too
C10_Witness ==
    \E h \in Handles :
        /\ pc[h] = "done" /\ cur[h].start = "Initialized"
        /\ \E i \in Idx : log[i].op = "initialize" /\ log[i].sys = cur[h].sys

\* ---- reading the bubbling pass ---------------------------------------------
\* a ListenerInput is published: the callback is running or has just returned
Published == phase \in {"callback", "returned"}

\* the entity the published ListenerInput was constructed for
Constructed == invoked[Len(invoked)]

\* ---- C11 -----------------------------------------------------------------
\* C11: a ListenerInput starts with propagate true; once stop_propagation has
\* been called on it propagate is false, however often it is called and
\* whatever listener(), reads and writes of the event data follow; a repeated
\* stop_propagation changes no field.
C11_StopIsSticky ==
    /\ [](Published => (input.propagate <=> entity \notin stops))
    /\ [][(Published /\ phase' = "callback" /\ ~input.propagate) =>
              /\ ~input'.propagate
              /\ ret'.op = "stop_propagation" => input' = input]_vars

\* stop_propagation was called and the callback then wrote the event data
C11_Witness == phase = "callback" /\ entity \in stops /\ ret.op = "deref_mut"

\* ---- C12 -----------------------------------------------------------------
\* C12: listener() returns the entity the ListenerInput was constructed with,
\* also after writes of the event data and after stop_propagation, and the
\* call itself changes no field of the ListenerInput.
C12_ListenerIsConstructed ==
    /\ [](Published => input.listener = Constructed)
    /\ []((Published /\ ret.op = "listener") => ret.entity = Constructed)
    /\ [][(phase = "callback" /\ ret'.op = "listener") => input' = input]_vars

\* listener() was called after a write and a stop_propagation, on a listener
\* that is not the event's target
C12_Witness ==
    /\ phase = "callback" /\ ret.op = "listener"
    /\ wrote.n > 0 /\ entity \in stops
    /\ input.listener # deref(input).target

\* ---- C13 -----------------------------------------------------------------
\* C13: every `foo += 1` the callback makes through the ListenerInput lands
\* in the one event_data of that ListenerInput: the driver reading it after
\* run returned, and a read through it by the callback, see foo at its
\* constructed value plus the number of increments.
C13_WritesReachPayload ==
    LET payload == [target |-> event.target, foo |-> wrote.foo0 + wrote.n] IN
    /\ Published => input.event_data = payload
    /\ (Published /\ ret.op = "deref") => ret.data = payload

\* run has returned after an increment followed by a read
C13_Witness == phase = "returned" /\ wrote.n > 0 /\ ret.op = "deref"

\* ---- C14 -----------------------------------------------------------------
\* C14: when a callback called stop_propagation at a listener, the driver
\* reads propagate = false after run returned and constructs no ListenerInput
\* for any ancestor: that listener is the last one invoked in the pass.
C14_NoAncestorInvoked ==
    /\ (phase = "returned" /\ entity \in stops) => ~input.propagate
    /\ \A i \in DOMAIN invoked : invoked[i] \in stops => i = Len(invoked)

\* the pass has ended after a stop at a listener L whose parent P1 and
\* grandparent P2 both carry listeners
C14_Witness ==
    /\ phase = "finished"
    /\ \E e \in stops : /\ Parent(e) \in listeners
                        /\ Parent(e) # NoEntity /\ Parent(Parent(e)) \in listeners

\* ---- reading the calls -------------------------------------------------------
\* the call through h is between its entry and its return
InCall(h) == pc[h] \notin {"idle", "done", "failed"}

\* the call through h is about to execute `system.lock().unwrap()`
AtLock(h) == pc[h] \in {"lock_initialize", "lock_run", "lock_apply_deferred"}

\* some step of system s has panicked
Failed(s) == \E i \in Idx : log[i].sys = s /\ ~log[i].ok

\* ---- C15 -----------------------------------------------------------------
\* C15: run takes the Mutex once and holds it from its first step to its
\* last: a call that has performed a step and has not yet returned holds the
\* Mutex of its system.
C15_LockHeldThroughout ==
    \A h \in Handles :
        (InCall(h) /\ CallSteps(cur[h].c) # <<>>) => lock[cur[h].sys] = h

\* ---- C16 -----------------------------------------------------------------
\* C16: a call never executes lock() while it holds the Mutex, holds no Mutex
\* once it has returned or unwound, and, threads being scheduled fairly,
\* every call that was entered comes to its end (return or unwinding): the
\* calls of a behaviour being finitely many, from some point on no call is
\* left between its entry and its end.
C16_EveryCallEnds ==
    /\ [](\A h \in Handles : \A s \in Systems :
            lock[s] = h => (pc[h] \in {"initialize", "run", "apply_deferred"}
                            /\ cur[h].sys = s))
    /\ <>[](\A h \in Handles : ~InCall(h))

\* a call waits at lock() while the call through another handle holds the Mutex
C16_Witness ==
    \E h, g \in Handles : h # g /\ AtLock(h) /\ lock[cur[h].sys] = g

\* ---- C17 -----------------------------------------------------------------
\* C17: when run has returned normally, a handle that was New(c) or
\* Initialized(c) at entry is Initialized(c), and the handle is Empty only if
\* it was Empty at entry.
C17_KeepsCallback ==
    \A h \in Handles :
        pc[h] = "done" =>
            /\ cur[h].start \in {"New", "Initialized"} =>
                   (is_initialized(handle[h]) /\ handle[h].sys = cur[h].sys)
            /\ handle[h] = Empty => cur[h].start = "Empty"

\* a call entered on an Initialized handle has returned normally
C17_Witness == \E h \in Handles : pc[h] = "done" /\ cur[h].start = "Initialized"

\* ---- C18 -----------------------------------------------------------------
\* C18: once a step of a system has panicked its Mutex is poisoned; from then
\* on no step of that system is performed, no call on it reaches a normal
\* return, and a call that executes lock() on it fails there.
C18_PoisonStopsEverything ==
    /\ [](\A s \in Systems : Failed(s) => poisoned[s])
    /\ [](\A i, j \in Idx : (i < j /\ ~log[i].ok) => log[j].sys # log[i].sys)
    /\ [][\A h \in Handles :
            (InCall(h) /\ Failed(cur[h].sys)) =>
                /\ pc'[h] # "done"
                /\ (AtLock(h) /\ pc'[h] # pc[h]) =>
                       (pc'[h] = "failed" /\ cur'[h].at = pc[h])]_vars

\* a call entered after the panic of another call's step has failed at lock()
C18_Witness ==
    \E h \in Handles :
        /\ pc[h] = "failed"
        /\ cur[h].at \in {"lock_initialize", "lock_run"}
        /\ CallSteps(cur[h].c) = <<>>
        /\ \E i \in Idx : ~log[i].ok /\ log[i].call < cur[h].c

====
